---- MODULE Spec2Model ----
(***************************************************************************)
(* Model of dxf_to_csv.py: the line scanner of parse_dxf_points (BLOCK,    *)
(* ENDBLK, POINT and INSERT parselets), the resolver that expands the      *)
(* recorded INSERTs, transform_point, and the de-duplication of main().    *)
(*                                                                         *)
(* A file is a sequence of fragments, each fragment a sequence of raw      *)
(* lines; readlines() flattens it.  Lines are strings; str.strip, int()    *)
(* and float() are tables over the finite set of lines the inputs use.     *)
(* Coordinates are integers standing for the floats of the same value.     *)
(***************************************************************************)
EXTENDS Integers, Sequences, FiniteSets, TLC

VARIABLES
    file,                 \* the input file's content, as fragments of lines
    readable,             \* whether open()/readlines() succeeds
    remove_duplicates,    \* main: the --unique / -u flag
    lines,                \* parse_dxf_points: f.readlines()
    pc,                   \* position in main / parse_dxf_points
    i,                    \* the line cursor
    current_block,        \* None or the open BLOCK's name
    current_block_points, \* the open BLOCK's accumulated points
    points,               \* the result list
    blocks,               \* {block_name: [points]}
    inserts,              \* recorded INSERT tuples
    point_data,           \* the POINT parselet's dict
    ins,                  \* the INSERT parselet's locals
    tags,                 \* history: what the running parselet read so far,
                          \* <<code, value>> per pair, <<line>> per dropped line
    k,                    \* the resolver's position in inserts
    stdout,               \* what print() wrote
    saved,                \* what main handed to save_points_to_csv
    csv_file              \* the output file name main chose

vars == <<file, readable, remove_duplicates, lines, pc, i, current_block,
          current_block_points, points, blocks, inserts, point_data, ins, tags,
          k, stdout, saved, csv_file>>

(***************************************************************************)
(* Bounds.                                                                 *)
(***************************************************************************)
\* Files are all sequences of at most MaxEnts fragments of Menu, plus the
\* fixed files of Examples.
MaxEnts == 2
\* The resolver is also run from every registry of one block of one point
\* with coordinates in -MaxCoord..MaxCoord.
MaxCoord == 1

(***************************************************************************)
(* Lines: str.strip(), int() and float() on the lines the inputs use.      *)
(***************************************************************************)
None == <<>>
Some(v) == <<v>>

\* line.strip(): group codes are written right-justified in real files
Strip(t) ==
    CASE t = "  0" -> "0"
      [] t = " 10" -> "10"
      [] t = " 20" -> "20"
      [] OTHER -> t

\* the lines int() accepts, with their values
IntTable ==
    ("0" :> 0) @@ ("1" :> 1) @@ ("2" :> 2) @@ ("3" :> 3) @@ ("5" :> 5) @@
    ("7" :> 7) @@ ("8" :> 8) @@ ("10" :> 10) @@ ("20" :> 20) @@ ("30" :> 30) @@
    ("41" :> 41) @@ ("42" :> 42) @@ ("43" :> 43) @@ ("50" :> 50) @@ ("90" :> 90)

\* the lines float() accepts and int() does not
FloatOnlyTable == ("4.0" :> 4) @@ ("-1.0" :> 0 - 1)

IsInt(t) == t \in DOMAIN IntTable
IntOf(t) == IntTable[t]
IsFloat(t) == t \in DOMAIN IntTable \/ t \in DOMAIN FloatOnlyTable
FloatOf(t) == IF t \in DOMAIN IntTable THEN IntTable[t] ELSE FloatOnlyTable[t]

\* a field that falls back to 0 when float() rejects the value
TryFloat_Reset(value_line, old) == IF IsFloat(value_line) THEN FloatOf(value_line) ELSE 0

\* try: field = float(value_line) except ValueError: pass
TryFloat(value_line, old) == IF IsFloat(value_line) THEN FloatOf(value_line) ELSE old

(***************************************************************************)
(* transform_point.  math.cos / math.sin of a multiple of 90 degrees are   *)
(* taken at their exact values; other angles are not among the inputs.     *)
(***************************************************************************)
CosDeg(d) == CASE d % 360 = 0 -> 1 [] d % 360 = 90 -> 0
               [] d % 360 = 180 -> 0 - 1 [] d % 360 = 270 -> 0
SinDeg(d) == CASE d % 360 = 0 -> 0 [] d % 360 = 90 -> 1
               [] d % 360 = 180 -> 0 [] d % 360 = 270 -> 0 - 1

\* a transform that rotates first and scales the rotated point
transform_point_RotateFirst(x, y, z, insert_x, insert_y, insert_z, scale_x, scale_y, scale_z, rotation_deg) ==
    LET x_rotated == IF rotation_deg # 0
                     THEN x * CosDeg(rotation_deg) - y * SinDeg(rotation_deg)
                     ELSE x
        y_rotated == IF rotation_deg # 0
                     THEN x * SinDeg(rotation_deg) + y * CosDeg(rotation_deg)
                     ELSE y
    IN  <<x_rotated * scale_x + insert_x, y_rotated * scale_y + insert_y,
          z * scale_z + insert_z>>

\* a transform that translates first and scales the translated point
transform_point_TranslateFirst(x, y, z, insert_x, insert_y, insert_z, scale_x, scale_y, scale_z, rotation_deg) ==
    LET x_scaled == (x + insert_x) * scale_x
        y_scaled == (y + insert_y) * scale_y
        z_scaled == (z + insert_z) * scale_z
        x_rotated == IF rotation_deg # 0
                     THEN x_scaled * CosDeg(rotation_deg) - y_scaled * SinDeg(rotation_deg)
                     ELSE x_scaled
        y_rotated == IF rotation_deg # 0
                     THEN x_scaled * SinDeg(rotation_deg) + y_scaled * CosDeg(rotation_deg)
                     ELSE y_scaled
    IN  <<x_rotated, y_rotated, z_scaled>>

transform_point(x, y, z, insert_x, insert_y, insert_z, scale_x, scale_y, scale_z, rotation_deg) ==
    LET x_scaled == x * scale_x
        y_scaled == y * scale_y
        z_scaled == z * scale_z
        x_rotated == IF rotation_deg # 0
                     THEN x_scaled * CosDeg(rotation_deg) - y_scaled * SinDeg(rotation_deg)
                     ELSE x_scaled
        y_rotated == IF rotation_deg # 0
                     THEN x_scaled * SinDeg(rotation_deg) + y_scaled * CosDeg(rotation_deg)
                     ELSE y_scaled
    IN  <<x_rotated + insert_x, y_rotated + insert_y, z_scaled + insert_z>>

(***************************************************************************)
(* The scanner's frame as a record, and one operator per step of the code. *)
(* L is lines; s is the frame before the step; the value is the frame      *)
(* after it.                                                               *)
(***************************************************************************)
\* lines 60, 70-75: the locals as the scan starts
Frame0 ==
    [pc |-> "top", i |-> 0, current_block |-> None, current_block_points |-> <<>>,
     points |-> <<>>, blocks |-> <<>>, inserts |-> <<>>, point_data |-> <<>>,
     ins |-> <<>>, tags |-> <<>>, k |-> 0, stdout |-> <<>>]

\* lines[i].strip(), the cursor counting from 0
LineAt(L, n) == Strip(L[n + 1])

\* python truthiness of current_block: neither None nor ''
Truthy(cb) == cb # None /\ cb[1] # ""

\* a registry in which the first definition of a name stays
CommitBlock_KeepFirst(s) ==
    IF Truthy(s.current_block) /\ s.current_block_points # <<>>
    THEN [s EXCEPT !.blocks = @ @@ (s.current_block[1] :> s.current_block_points)]
    ELSE s

\* a registry that takes every block that has a name, whatever it holds
CommitBlock_Named(s) ==
    IF s.current_block # None
    THEN [s EXCEPT !.blocks = (s.current_block[1] :> s.current_block_points) @@ @]
    ELSE s

\* blocks[current_block] = current_block_points, when both are truthy
CommitBlock(s) ==
    IF Truthy(s.current_block) /\ s.current_block_points # <<>>
    THEN [s EXCEPT !.blocks = (s.current_block[1] :> s.current_block_points) @@ @]
    ELSE s

\* a parselet skipping two lines for a line that is no integer
DropLine_Two(s, code_line) ==
    [s EXCEPT !.i = @ + 2, !.tags = Append(@, <<code_line>>)]

\* lines 92-95, 136-140, 193-196: a line in group-code position that int()
\* rejects is passed over
DropLine(s, code_line) ==
    [s EXCEPT !.i = @ + 1, !.tags = Append(@, <<code_line>>)]

\* a BLOCK keyword that first commits the region still open
BlockStart_Commit(s) ==
    [CommitBlock(s) EXCEPT !.current_block = None, !.current_block_points = <<>>,
                           !.tags = <<>>, !.i = @ + 1, !.pc = "blockhdr"]

\* line 81-84: the BLOCK keyword
BlockStart(s) ==
    [s EXCEPT !.current_block = None, !.current_block_points = <<>>,
              !.tags = <<>>, !.i = @ + 1, !.pc = "blockhdr"]

\* a BLOCK header loop that steps back by two lines at the terminator
BlockHeaderLoop_RewindTwo(L, s) ==
    IF s.i >= Len(L) THEN [s EXCEPT !.pc = "top"]
    ELSE LET code_line == LineAt(L, s.i)
             i1 == s.i + 1
         IN  IF code_line = "0" THEN [s EXCEPT !.i = i1 - 2, !.pc = "top"]
             ELSE IF ~IsInt(code_line) THEN DropLine(s, code_line)
             ELSE IF i1 >= Len(L) THEN [s EXCEPT !.i = i1, !.pc = "top"]
             ELSE IF IntOf(code_line) = 2
                  THEN [s EXCEPT !.i = i1 + 1, !.pc = "top",
                                 !.tags = Append(@, <<code_line, LineAt(L, i1)>>),
                                 !.current_block = Some(LineAt(L, i1))]
                  ELSE [s EXCEPT !.i = i1 + 1,
                                 !.tags = Append(@, <<code_line, LineAt(L, i1)>>)]

\* lines 86-103: one iteration of the BLOCK header loop, or its exit
BlockHeaderLoop(L, s) ==
    IF s.i >= Len(L) THEN [s EXCEPT !.pc = "top"]
    ELSE LET code_line == LineAt(L, s.i)
             i1 == s.i + 1
         IN  IF code_line = "0" THEN [s EXCEPT !.i = i1 - 1, !.pc = "top"]
             ELSE IF ~IsInt(code_line) THEN DropLine(s, code_line)
             ELSE IF i1 >= Len(L) THEN [s EXCEPT !.i = i1, !.pc = "top"]
             ELSE IF IntOf(code_line) = 2
                  THEN [s EXCEPT !.i = i1 + 1, !.pc = "top",
                                 !.tags = Append(@, <<code_line, LineAt(L, i1)>>),
                                 !.current_block = Some(LineAt(L, i1))]
                  ELSE [s EXCEPT !.i = i1 + 1,
                                 !.tags = Append(@, <<code_line, LineAt(L, i1)>>)]

\* lines 106-112: the ENDBLK keyword
EndBlk(s) ==
    [CommitBlock(s) EXCEPT !.current_block = None, !.current_block_points = <<>>,
                           !.i = @ + 1]

\* lines 115-118: the POINT keyword
PointStart(s) ==
    [s EXCEPT !.point_data = <<>>, !.tags = <<>>, !.i = @ + 1, !.pc = "point"]

\* a POINT that is emitted only when x, y and z are all present
EmitPoint_NeedsZ(s) ==
    IF "x" \in DOMAIN s.point_data /\ "y" \in DOMAIN s.point_data
       /\ "z" \in DOMAIN s.point_data
    THEN LET p == <<s.point_data["x"], s.point_data["y"], s.point_data["z"]>>
         IN  IF s.current_block # None
             THEN [s EXCEPT !.current_block_points = Append(@, p)]
             ELSE [s EXCEPT !.points = Append(@, p)]
    ELSE s

\* lines 124-133 and 165-172: append the point if x and y are present
EmitPoint(s) ==
    IF "x" \in DOMAIN s.point_data /\ "y" \in DOMAIN s.point_data
    THEN LET p == <<s.point_data["x"], s.point_data["y"],
                    IF "z" \in DOMAIN s.point_data THEN s.point_data["z"] ELSE 0>>
         IN  IF s.current_block # None
             THEN [s EXCEPT !.current_block_points = Append(@, p)]
             ELSE [s EXCEPT !.points = Append(@, p)]
    ELSE s

\* a POINT parselet that stores 0.0 for a value float() rejects
SetCoord_Default(pd, key, value_line) ==
    IF IsFloat(value_line) THEN (key :> FloatOf(value_line)) @@ pd ELSE (key :> 0) @@ pd

\* lines 149-163: point_data[key] = float(value_line), ValueError swallowed
SetCoord(pd, key, value_line) ==
    IF IsFloat(value_line) THEN (key :> FloatOf(value_line)) @@ pd ELSE pd

PointTag(pd, code, value_line) ==
    CASE code = 10 -> SetCoord(pd, "x", value_line)
      [] code = 20 -> SetCoord(pd, "y", value_line)
      [] code = 30 -> SetCoord(pd, "z", value_line)
      [] OTHER -> pd

\* lines 120-173: one iteration of the POINT loop, or its exit
PointLoop(L, s) ==
    IF s.i >= Len(L) THEN [EmitPoint(s) EXCEPT !.pc = "top"]
    ELSE LET code_line == LineAt(L, s.i)
         IN  IF code_line = "0" THEN [EmitPoint(s) EXCEPT !.pc = "top"]
             ELSE IF ~IsInt(code_line) THEN DropLine(s, code_line)
             ELSE IF s.i + 1 >= Len(L)
                  THEN [EmitPoint(s) EXCEPT !.i = s.i + 1, !.pc = "top"]
                  ELSE [s EXCEPT !.i = s.i + 2,
                                 !.tags = Append(@, <<code_line, LineAt(L, s.i + 1)>>),
                                 !.point_data = PointTag(@, IntOf(code_line),
                                                         LineAt(L, s.i + 1))]

\* lines 177-185: the INSERT keyword
InsertStart(s) ==
    [s EXCEPT !.ins = [block_name |-> "", insert_x |-> 0, insert_y |-> 0,
                       insert_z |-> 0, scale_x |-> 1, scale_y |-> 1,
                       scale_z |-> 1, rotation |-> 0],
              !.tags = <<>>, !.i = @ + 1, !.pc = "insert"]

\* lines 202-238
InsertTag(r, code, value_line) ==
    CASE code = 2 -> [r EXCEPT !.block_name = value_line]
      [] code = 10 -> [r EXCEPT !.insert_x = TryFloat(value_line, @)]
      [] code = 20 -> [r EXCEPT !.insert_y = TryFloat(value_line, @)]
      [] code = 30 -> [r EXCEPT !.insert_z = TryFloat(value_line, @)]
      [] code = 41 -> [r EXCEPT !.scale_x = TryFloat(value_line, @)]
      [] code = 42 -> [r EXCEPT !.scale_y = TryFloat(value_line, @)]
      [] code = 43 -> [r EXCEPT !.scale_z = TryFloat(value_line, @)]
      [] code = 50 -> [r EXCEPT !.rotation = TryFloat(value_line, @)]
      [] OTHER -> r

\* lines 253-256: the transformed copies of a block's points
RECURSIVE Transformed(_, _)
Transformed(pts, r) ==
    IF pts = <<>> THEN <<>>
    ELSE <<transform_point(Head(pts)[1], Head(pts)[2], Head(pts)[3],
                           r.insert_x, r.insert_y, r.insert_z,
                           r.scale_x, r.scale_y, r.scale_z, r.rotation)>>
         \o Transformed(Tail(pts), r)

\* a scanner that resolves each INSERT where it meets it, against the blocks
\* registered so far
RecordInsert_Eager(s) ==
    IF s.ins.block_name = "" THEN [s EXCEPT !.pc = "top"]
    ELSE IF s.ins.block_name \in DOMAIN s.blocks
         THEN [s EXCEPT !.points = @ \o Transformed(s.blocks[s.ins.block_name], s.ins),
                        !.pc = "top"]
         ELSE [s EXCEPT !.stdout = Append(@, <<"warning", s.ins.block_name>>),
                        !.pc = "top"]

\* an INSERT that is recorded only when no BLOCK region is open
RecordInsert_TopLevelOnly(s) ==
    [s EXCEPT !.inserts = IF s.ins.block_name # "" /\ s.current_block = None
                          THEN Append(@, s.ins) ELSE @,
              !.pc = "top"]

\* lines 240-242: if block_name: inserts.append(...)
RecordInsert(s) ==
    [s EXCEPT !.inserts = IF s.ins.block_name # "" THEN Append(@, s.ins) ELSE @,
              !.pc = "top"]

\* lines 187-242: one iteration of the INSERT loop, or its exit
InsertLoop(L, s) ==
    IF s.i >= Len(L) THEN RecordInsert(s)
    ELSE LET code_line == LineAt(L, s.i)
             i1 == s.i + 1
         IN  IF code_line = "0" THEN RecordInsert([s EXCEPT !.i = i1 - 1])
             ELSE IF ~IsInt(code_line) THEN DropLine(s, code_line)
             ELSE IF i1 >= Len(L) THEN RecordInsert([s EXCEPT !.i = i1])
             ELSE [s EXCEPT !.i = i1 + 1,
                            !.tags = Append(@, <<code_line, LineAt(L, i1)>>),
                            !.ins = InsertTag(@, IntOf(code_line), LineAt(L, i1))]

\* line 244: any other line
SkipLine(s) == [s EXCEPT !.i = @ + 1]

\* a scan that ends without committing the open block
ScanEnd_NoFlush(s) == [s EXCEPT !.pc = "resolve", !.k = 1]

\* lines 246-248: the scan is over; commit the open block
ScanEnd(s) == [CommitBlock(s) EXCEPT !.pc = "resolve", !.k = 1]

\* a resolver that gives up at the first INSERT whose block is missing
ResolveInsert_Abort(s) ==
    LET r == s.inserts[s.k]
    IN  IF r.block_name \in DOMAIN s.blocks
        THEN [s EXCEPT !.points = @ \o Transformed(s.blocks[r.block_name], r),
                       !.k = @ + 1]
        ELSE [s EXCEPT !.stdout = Append(@, <<"warning", r.block_name>>),
                       !.k = Len(s.inserts) + 1]

\* lines 251-258: one iteration of the resolver's loop
ResolveInsert(s) ==
    LET r == s.inserts[s.k]
    IN  IF r.block_name \in DOMAIN s.blocks
        THEN [s EXCEPT !.points = @ \o Transformed(s.blocks[r.block_name], r),
                       !.k = @ + 1]
        ELSE [s EXCEPT !.stdout = Append(@, <<"warning", r.block_name>>),
                       !.k = @ + 1]

\* line 260
Return(s) == [s EXCEPT !.pc = "ret"]

\* lines 77-244: what the outer loop does at the cursor
TopStep(L, s) ==
    IF s.i >= Len(L) THEN ScanEnd(s)
    ELSE CASE LineAt(L, s.i) = "BLOCK" -> BlockStart(s)
           [] LineAt(L, s.i) = "ENDBLK" -> EndBlk(s)
           [] LineAt(L, s.i) = "POINT" -> PointStart(s)
           [] LineAt(L, s.i) = "INSERT" -> InsertStart(s)
           [] OTHER -> SkipLine(s)

\* one step of parse_dxf_points after the file was read
StepOf(L, s) ==
    CASE s.pc = "top" -> TopStep(L, s)
      [] s.pc = "blockhdr" -> BlockHeaderLoop(L, s)
      [] s.pc = "point" -> PointLoop(L, s)
      [] s.pc = "insert" -> InsertLoop(L, s)
      [] s.pc = "resolve" -> IF s.k > Len(s.inserts) THEN Return(s)
                                                     ELSE ResolveInsert(s)

\* parse_dxf_points on a readable file of lines L: the frame at return
RECURSIVE RunFrom(_, _)
RunFrom(L, s) == IF s.pc = "ret" THEN s ELSE RunFrom(L, StepOf(L, s))
Parse(L) == RunFrom(L, Frame0)

(***************************************************************************)
(* main(): lines 304-312, the order-preserving removal of duplicates.      *)
(***************************************************************************)
RECURSIVE UniqueLoop(_, _, _)
UniqueLoop(ps, seen, points_ordered) ==
    IF ps = <<>> THEN points_ordered
    ELSE IF Head(ps) \notin seen
         THEN UniqueLoop(Tail(ps), seen \cup {Head(ps)}, Append(points_ordered, Head(ps)))
         ELSE UniqueLoop(Tail(ps), seen, points_ordered)

\* a removal of duplicates that keeps the last occurrence of each point
Reverse(ps) == [n \in 1..Len(ps) |-> ps[Len(ps) + 1 - n]]
UniqueOrdered_Last(ps) == Reverse(UniqueLoop(Reverse(ps), {}, <<>>))

UniqueOrdered(ps) == UniqueLoop(ps, {}, <<>>)

\* line 313: csv_file.replace('.csv', '_unique.csv')
UniqueName(name) == IF name = "out.csv" THEN "out_unique.csv" ELSE name

(***************************************************************************)
(* Inputs.  Every fragment is one entity, or a whole BLOCK ... ENDBLK      *)
(* definition, as a drawing program writes it: a "0" line, the keyword,    *)
(* then (code, value) pairs.                                               *)
(***************************************************************************)
PtA == <<"0", "POINT", "10", "1", "20", "2">>
PtB == <<"0", "POINT", "8", "0", "10", "3", "20", "1", "30", "1">>
PtPad == <<"  0", "POINT", " 10", "1", " 20", "2">>
BlkB1 == <<"0", "BLOCK", "8", "0", "2", "B1">>
BlkNoName == <<"0", "BLOCK", "8", "0">>
BlkEmptyName == <<"0", "BLOCK", "2", "">>
EndBlkEnt == <<"0", "ENDBLK">>
B1Def2 == <<"0", "BLOCK", "2", "B1",
            "0", "POINT", "10", "0", "20", "0", "30", "0",
            "0", "POINT", "10", "1", "20", "1", "30", "1",
            "0", "ENDBLK">>
B1Def1 == <<"0", "BLOCK", "2", "B1", "0", "POINT", "10", "3", "20", "1", "0", "ENDBLK">>
B1DefEmpty == <<"0", "BLOCK", "2", "B1", "0", "ENDBLK">>
InsA == <<"0", "INSERT", "2", "B1", "10", "10">>
InsB == <<"0", "INSERT", "2", "B1", "20", "10">>
InsRot == <<"0", "INSERT", "2", "B1", "41", "2", "50", "90", "10", "5", "20", "5">>
InsGhost == <<"0", "INSERT", "2", "Ghost", "10", "5">>
BlkB2 == <<"0", "BLOCK", "2", "B2">>
InsB2 == <<"0", "INSERT", "2", "B2", "20", "10">>
\* entities of a kind the scanner does not parse, with a layer tag (code 8)
LineEnt == <<"0", "LINE", "8", "0", "10", "1", "20", "2">>
LineOnLayerPoint == <<"0", "LINE", "8", "POINT", "10", "1", "20", "2">>
LineOnLayerInsert == <<"0", "LINE", "8", "INSERT", "2", "B1">>

\* entities with a malformed value, a malformed group-code line, or a missing tag
PtBadZ == <<"0", "POINT", "10", "1", "20", "2", "30", "zz">>
PtBadX == <<"0", "POINT", "10", "zz", "20", "2">>
PtZBadZ == <<"0", "POINT", "10", "1", "20", "2", "30", "5", "30", "zz">>
PtOnlyX == <<"0", "POINT", "10", "7">>
PtJunk == <<"0", "POINT", "zz", "10", "3", "20", "1">>
PtBadCode == <<"0", "POINT", "10", "1", "20", "2", "zz", "7">>
BlkJunk == <<"0", "BLOCK", "zz", "2", "B1">>
InsJunk == <<"0", "INSERT", "zz", "2", "B1", "10", "4.0">>
InsXBadX == <<"0", "INSERT", "2", "B1", "10", "5", "10", "zz", "41", "zz", "50", "zz">>
InsEmptyName == <<"0", "INSERT", "2", "", "10", "5">>
InsNoName == <<"0", "INSERT", "10", "5", "20", "5">>

\* well-formed entities only
Menu == {PtA, PtB, PtPad, BlkB1, BlkNoName, BlkEmptyName, EndBlkEnt, B1Def2, B1Def1, B1DefEmpty,
         InsA, InsB, InsRot, InsGhost, LineEnt, LineOnLayerPoint, LineOnLayerInsert}

\* one entity per fragment, malformed ones among them
MalMenu == {PtA, PtB, BlkNoName, PtBadZ, PtBadX, PtZBadZ, PtOnlyX, PtJunk, PtBadCode,
            BlkJunk, EndBlkEnt, InsJunk, InsXBadX, InsEmptyName, InsNoName,
            InsA, InsRot, InsGhost}

\* the files of the documented scenarios
Examples == {<<B1Def2, InsA, InsB>>, <<PtA, PtPad, PtB>>, <<PtA, PtB, PtA>>,
             <<InsGhost, PtA, InsA, B1Def1>>, <<B1Def2, B1Def1, InsA>>,
             <<B1Def1, B1DefEmpty, InsB>>,
             <<BlkEmptyName, PtA, EndBlkEnt, InsA>>,
             <<BlkB1, PtA, BlkNoName, InsA>>, <<BlkB1, PtA, B1DefEmpty, InsB>>,
             <<B1Def1, BlkB2, PtA, InsA, EndBlkEnt, InsB2>>,
             <<InsA, BlkB1, PtB>>, <<BlkB1, PtA, InsB>>, <<B1Def2, BlkB1, PtA, InsA>>}
\* entities whose parselets end each way: at a terminator with the cursor
\* stepped back, at a name, at the end of the lines, after a dropped line
FairMenu == {PtA, PtOnlyX, PtJunk, PtBadCode, BlkB1, BlkNoName, BlkJunk, EndBlkEnt,
             InsA, InsJunk}
MalExamples == {<<BlkJunk, PtJunk, EndBlkEnt, InsJunk>>}

SeqsUpTo(S, n) == UNION {[1..m -> S] : m \in 0..n}

RECURSIVE Flatten(_)
Flatten(f) == IF f = <<>> THEN <<>> ELSE Head(f) \o Flatten(Tail(f))

(***************************************************************************)
(* The state machine: main() calling parse_dxf_points.                     *)
(***************************************************************************)
\* the frame of parse_dxf_points in the current state
Now ==
    [pc |-> pc, i |-> i, current_block |-> current_block,
     current_block_points |-> current_block_points, points |-> points,
     blocks |-> blocks, inserts |-> inserts, point_data |-> point_data,
     ins |-> ins, tags |-> tags, k |-> k, stdout |-> stdout]

Becomes(n) ==
    /\ pc' = n.pc
    /\ i' = n.i
    /\ current_block' = n.current_block
    /\ current_block_points' = n.current_block_points
    /\ points' = n.points
    /\ blocks' = n.blocks
    /\ inserts' = n.inserts
    /\ point_data' = n.point_data
    /\ ins' = n.ins
    /\ tags' = n.tags
    /\ k' = n.k
    /\ stdout' = n.stdout
    /\ UNCHANGED <<file, readable, remove_duplicates, lines, saved, csv_file>>

InitWith(files) ==
    /\ file \in files
    /\ readable \in BOOLEAN
    /\ readable = FALSE => file = <<>>
    /\ remove_duplicates \in BOOLEAN
    /\ lines = <<>>
    /\ pc = "open"
    /\ i = Frame0.i
    /\ current_block = Frame0.current_block
    /\ current_block_points = Frame0.current_block_points
    /\ points = Frame0.points
    /\ blocks = Frame0.blocks
    /\ inserts = Frame0.inserts
    /\ point_data = Frame0.point_data
    /\ ins = Frame0.ins
    /\ tags = Frame0.tags
    /\ k = Frame0.k
    /\ stdout = Frame0.stdout
    /\ saved = None
    /\ csv_file = "out.csv"

Init == InitWith(SeqsUpTo(Menu, MaxEnts) \cup Examples)
InitMalformed == InitWith(SeqsUpTo(MalMenu, MaxEnts) \cup MalExamples)
InitFair == InitWith(SeqsUpTo(FairMenu, MaxEnts) \cup MalExamples)

\* lines 62-64: the file is read
ReadLines ==
    /\ pc = "open" /\ readable
    /\ lines' = Flatten(file)
    /\ pc' = "top"
    /\ UNCHANGED <<file, readable, remove_duplicates, i, current_block,
                   current_block_points, points, blocks, inserts, point_data,
                   ins, tags, k, stdout, saved, csv_file>>

\* lines 65-67: the file cannot be read
ReadFail ==
    /\ pc = "open" /\ ~readable
    /\ stdout' = Append(stdout, <<"read error">>)
    /\ pc' = "ret"
    /\ UNCHANGED <<file, readable, remove_duplicates, lines, i, current_block,
                   current_block_points, points, blocks, inserts, point_data,
                   ins, tags, k, saved, csv_file>>

AtLine(kw) == pc = "top" /\ i < Len(lines) /\ LineAt(lines, i) = kw

OnBlock == AtLine("BLOCK") /\ Becomes(BlockStart(Now))
OnEndBlk == AtLine("ENDBLK") /\ Becomes(EndBlk(Now))
OnPoint == AtLine("POINT") /\ Becomes(PointStart(Now))
OnInsert == AtLine("INSERT") /\ Becomes(InsertStart(Now))
OnOtherLine ==
    /\ pc = "top" /\ i < Len(lines)
    /\ LineAt(lines, i) \notin {"BLOCK", "ENDBLK", "POINT", "INSERT"}
    /\ Becomes(SkipLine(Now))
BlockHeaderStep == pc = "blockhdr" /\ Becomes(BlockHeaderLoop(lines, Now))
PointStep == pc = "point" /\ Becomes(PointLoop(lines, Now))
InsertStep == pc = "insert" /\ Becomes(InsertLoop(lines, Now))
FinishScan == pc = "top" /\ i >= Len(lines) /\ Becomes(ScanEnd(Now))
Resolve == pc = "resolve" /\ k <= Len(inserts) /\ Becomes(ResolveInsert(Now))
ReturnPoints == pc = "resolve" /\ k > Len(inserts) /\ Becomes(Return(Now))

\* lines 295-316: points were found; they are saved, without duplicates on request
MainSave ==
    /\ pc = "ret" /\ points # <<>>
    /\ saved' = Some(IF remove_duplicates THEN UniqueOrdered(points) ELSE points)
    /\ csv_file' = IF remove_duplicates THEN UniqueName(csv_file) ELSE csv_file
    /\ pc' = "exit"
    /\ UNCHANGED <<file, readable, remove_duplicates, lines, i, current_block,
                   current_block_points, points, blocks, inserts, point_data,
                   ins, tags, k, stdout>>

\* lines 317-318: no points
MainEmpty ==
    /\ pc = "ret" /\ points = <<>>
    /\ stdout' = Append(stdout, <<"no points">>)
    /\ pc' = "exit"
    /\ UNCHANGED <<file, readable, remove_duplicates, lines, i, current_block,
                   current_block_points, points, blocks, inserts, point_data,
                   ins, tags, k, saved, csv_file>>

Next ==
    \/ ReadLines
    \/ ReadFail
    \/ OnBlock
    \/ OnEndBlk
    \/ OnPoint
    \/ OnInsert
    \/ OnOtherLine
    \/ BlockHeaderStep
    \/ PointStep
    \/ InsertStep
    \/ FinishScan
    \/ Resolve
    \/ ReturnPoints
    \/ MainSave
    \/ MainEmpty

Spec == Init /\ [][Next]_vars
SpecMalformed == InitMalformed /\ [][Next]_vars
\* the program on the files of FairMenu, every step that can be taken being
\* taken: the interpreter runs on
SpecFair == InitFair /\ [][Next]_vars /\ WF_vars(Next)

(***************************************************************************)
(* The resolver alone (lines 251-260), started where the scan left one     *)
(* block of one point and one recorded INSERT of it: every combination of  *)
(* a point, an insertion origin, scale factors and a rotation that is a    *)
(* multiple of 90 degrees.                                                  *)
(***************************************************************************)
Coord == (0 - MaxCoord)..MaxCoord
Origins == {0, 5}
Scales == {1, 2}
Rotations == {0, 90, 180, 270, 360, 0 - 90}

InitResolver ==
    /\ file = <<>>
    /\ readable = TRUE
    /\ remove_duplicates = FALSE
    /\ lines = <<>>
    /\ pc = "resolve"
    /\ i = 0
    /\ current_block = None
    /\ current_block_points = <<>>
    /\ points = <<>>
    /\ \E x, y, z \in Coord : blocks = ("B1" :> <<<<x, y, z>>>>)
    /\ \E r \in [block_name : {"B1"}, insert_x : Origins, insert_y : Origins,
                  insert_z : Origins, scale_x : Scales, scale_y : Scales,
                  scale_z : Scales, rotation : Rotations] : inserts = <<r>>
    /\ point_data = <<>>
    /\ ins = <<>>
    /\ tags = <<>>
    /\ k = 1
    /\ stdout = <<>>
    /\ saved = None
    /\ csv_file = "out.csv"

NextResolver ==
    \/ Resolve
    \/ ReturnPoints

SpecResolver == InitResolver /\ [][NextResolver]_vars

(***************************************************************************)
(* The structure of the input file, read off the file and not off the      *)
(* scanner: which fragment is which entity, and where BLOCK regions lie.    *)
(***************************************************************************)
Keyword(frag) == frag[2]
Remove(f, j) == SubSeq(f, 1, j - 1) \o SubSeq(f, j + 1, Len(f))
\* fragment j of f moved to just after fragment m, j < m
MoveAfter(f, j, m) ==
    SubSeq(f, 1, j - 1) \o SubSeq(f, j + 1, m) \o <<f[j]>> \o SubSeq(f, m + 1, Len(f))
HasBlockKeyword(frag) == \E n \in 1..Len(frag) : Strip(frag[n]) = "BLOCK"
\* a fragment with a line INSERT, at which the scanner starts an INSERT
HoldsInsert(frag) == \E n \in 1..Len(frag) : Strip(frag[n]) = "INSERT"
\* the block name an INSERT fragment carries: the value of its code-2 tag
InsertName(frag) == frag[(CHOOSE n \in 3..Len(frag) : n % 2 = 1 /\ frag[n] = "2") + 1]
\* the cursor value at which fragment j of f starts
StartOf(f, j) == Len(Flatten(SubSeq(f, 1, j - 1)))
\* line n (from 0) of L lies after a BLOCK keyword with no ENDBLK since
InBlockRegion(L, n) ==
    \E b \in 1..n : /\ Strip(L[b]) = "BLOCK"
                    /\ \A e \in b..n : Strip(L[e]) # "ENDBLK"

\* a fragment that is a whole BLOCK ... ENDBLK definition: its name, and the
\* points of the POINT entities between its header and its ENDBLK
IsDefinition(frag) ==
    Keyword(frag) = "BLOCK" /\ Len(frag) >= 6 /\ frag[3] = "2" /\ frag[Len(frag)] = "ENDBLK"
DefName(frag) == frag[4]
DefPoints(frag) == Parse(SubSeq(frag, 5, Len(frag) - 2)).points
\* what the registry bs holds for name n, nothing counting as the empty list
Registered(bs, n) == IF n \in DOMAIN bs THEN bs[n] ELSE <<>>
\* fragments j < d of f are two definitions of one name, and d is the last
\* fragment of f that holds a BLOCK keyword
Redefines(f, j, d) ==
    /\ j < d /\ IsDefinition(f[j]) /\ IsDefinition(f[d])
    /\ DefName(f[j]) = DefName(f[d])
    /\ \A q \in (d + 1)..Len(f) : ~HasBlockKeyword(f[q])

\* the cursor values at which the fragments of f after the first start
Boundaries(f) == {StartOf(f, j) : j \in 2..Len(f)}
Parselets == {"blockhdr", "point", "insert"}
\* among the tags T a parselet read: one for code c whose value float() takes
GoodTag(T, c) ==
    \E n \in 1..Len(T) : Len(T[n]) = 2 /\ IntOf(T[n][1]) = c /\ IsFloat(T[n][2])
\* one for code c whose value float() rejects
BadTag(T, c) ==
    \E n \in 1..Len(T) : Len(T[n]) = 2 /\ IntOf(T[n][1]) = c /\ ~IsFloat(T[n][2])
\* the list a closing POINT appends to
Target == IF current_block # None THEN current_block_points ELSE points

\* the elements of ps that no earlier element of ps equals, in their order
RECURSIVE FirstOccurrencesFrom(_, _)
FirstOccurrencesFrom(ps, n) ==
    IF n > Len(ps) THEN <<>>
    ELSE (IF \A m \in 1..(n - 1) : ps[m] # ps[n] THEN <<ps[n]>> ELSE <<>>)
         \o FirstOccurrencesFrom(ps, n + 1)
FirstOccurrences(ps) == FirstOccurrencesFrom(ps, 1)
Elements(ps) == {ps[n] : n \in 1..Len(ps)}

\* the points of the POINT entities of f that lie outside every BLOCK region
RECURSIVE OutsidePointsFrom(_, _)
OutsidePointsFrom(f, j) ==
    IF j > Len(f) THEN <<>>
    ELSE (IF Keyword(f[j]) = "POINT" /\ ~InBlockRegion(Flatten(f), StartOf(f, j))
          THEN Parse(f[j]).points ELSE <<>>)
         \o OutsidePointsFrom(f, j + 1)
OutsidePoints(f) == OutsidePointsFrom(f, 1)

\* for every recorded INSERT in order, the transformed points of its block
RECURSIVE ResolvedPoints(_, _)
ResolvedPoints(rs, bs) ==
    IF rs = <<>> THEN <<>>
    ELSE (IF Head(rs).block_name \in DOMAIN bs
          THEN Transformed(bs[Head(rs).block_name], Head(rs)) ELSE <<>>)
         \o ResolvedPoints(Tail(rs), bs)

(***************************************************************************)
(* The claims.                                                             *)
(***************************************************************************)

\* C1: the returned sequence is the points of the POINT entities outside
\* every BLOCK region, in file order, followed by the transformed points of
\* each recorded INSERT's registered block, in INSERT order.
C1_AsClaimed ==
    (pc = "ret" /\ readable) =>
        points = OutsidePoints(file) \o ResolvedPoints(inserts, blocks)

\* C4: while the cursor is inside a BLOCK region (after a BLOCK keyword, no
\* ENDBLK since), the POINT parselet never appends to the top-level list.
C4_AsClaimed ==
    [][(pc = "point" /\ InBlockRegion(lines, i)) => points' = points]_vars

\* C2: an INSERT written before a BLOCK definition resolves as it does when
\* the definition comes first: moving an INSERT fragment to just after a
\* later fragment that holds a BLOCK keyword (no line INSERT in between)
\* leaves the returned points and the warnings unchanged; and the resolver
\* starts only when the cursor has consumed every line.
C2_ResolvedAfterScan ==
    /\ k > 0 => i >= Len(lines)
    /\ (pc = "ret" /\ readable) =>
         \A j \in 1..Len(file) : \A m \in (j + 1)..Len(file) :
            ( /\ Keyword(file[j]) = "INSERT"
              /\ HasBlockKeyword(file[m])
              /\ \A q \in (j + 1)..m : ~HoldsInsert(file[q]) )
            => LET G == Parse(Flatten(MoveAfter(file, j, m)))
               IN  points = G.points /\ stdout = G.stdout

\* C2 witness: INSERT B1 precedes the definition of B1 and resolved to both
\* of its points.
C2_Witness ==
    /\ pc = "ret" /\ Len(file) = 2
    /\ file[1] = InsA /\ file[2] = B1Def2
    /\ points = <<<<10, 0, 0>>, <<11, 1, 1>>>>

\* C3: an INSERT whose block is not in the registry adds no point and
\* exactly one warning naming its block; everything else the call returns
\* and prints is what the file without that INSERT gives.
C3_UnresolvedInsertIsLocal ==
    (pc = "ret" /\ readable) =>
        \A j \in 1..Len(file) :
            (Keyword(file[j]) = "INSERT" /\ InsertName(file[j]) \notin DOMAIN blocks)
            => LET G == Parse(Flatten(Remove(file, j)))
                   w == <<"warning", InsertName(file[j])>>
                   Count(out) == Cardinality({n \in 1..Len(out) : out[n] = w})
               IN  /\ points = G.points
                   /\ Len(stdout) = Len(G.stdout) + 1
                   /\ Count(stdout) = Count(G.stdout) + 1

\* C3 witness: the INSERT of Ghost comes first; the POINT and the INSERT of
\* B1 after it gave their points, and one warning was printed.
C3_Witness ==
    /\ pc = "ret"
    /\ file = <<InsGhost, PtA, InsA, B1Def1>>
    /\ stdout = <<<<"warning", "Ghost">>>>
    /\ points = <<<<1, 2, 0>>, <<13, 1, 0>>>>

\* C5 as claimed: after the scan the registry holds, for a name defined
\* twice, the point list of the later definition, whatever it contains.
C5_AsClaimed ==
    (pc = "ret" /\ readable) =>
        \A j \in 1..Len(file) : \A d \in 1..Len(file) :
            Redefines(file, j, d) =>
                Registered(blocks, DefName(file[d])) = DefPoints(file[d])

\* C5 amended: the later definition replaces the earlier one when it holds
\* at least one completed POINT, and then every INSERT resolves against its
\* points; a later definition without points leaves the registry as the
\* file without that definition gives it.
C5_LaterNonEmptyWins ==
    (pc = "ret" /\ readable) =>
        \A j \in 1..Len(file) : \A d \in 1..Len(file) :
            Redefines(file, j, d) =>
                IF DefPoints(file[d]) # <<>>
                THEN /\ DefName(file[d]) \in DOMAIN blocks
                     /\ blocks[DefName(file[d])] = DefPoints(file[d])
                     /\ \A n \in 1..Len(inserts) :
                          inserts[n].block_name = DefName(file[d]) =>
                            ResolvedPoints(<<inserts[n]>>, blocks)
                              = Transformed(DefPoints(file[d]), inserts[n])
                ELSE blocks = Parse(Flatten(Remove(file, d))).blocks

\* C5 witness: B1 is defined with two points, then again with one point,
\* and the INSERT of B1 resolved against the one point of the later one.
C5_Witness ==
    /\ pc = "ret"
    /\ file = <<B1Def2, B1Def1, InsA>>
    /\ blocks["B1"] = <<<<3, 1, 0>>>>
    /\ points = <<<<13, 1, 0>>>>

\* C6: when the file cannot be read, what parse_dxf_points hands back to its
\* caller differs from what it hands back for a readable file without
\* points.
C6_AsClaimed ==
    (pc = "ret" /\ ~readable) => points # Parse(<<>>).points

\* a step that leaves every later entity's first line unconsumed
TerminatorKept ==
    pc \in Parselets =>
      \A b \in Boundaries(file) : ~(i <= b /\ b < i')

\* C7: no parselet consumes the first line of the next entity, its "0"
\* terminator, as a value or as a dropped line: while a parselet runs, the
\* cursor never moves past the start of a later entity of the file.
C7_AsClaimed == [][TerminatorKept]_vars

\* a step that closes a POINT as C8 words it, or does not close one
ClosesAsClaimed ==
    (pc = "point" /\ pc' = "top") =>
      /\ BadTag(tags, 30) =>
           \/ Target' = Target
           \/ \E p \in {Target'[Len(Target')]} :
                 Target' = Append(Target, p) /\ p[3] = 0
      /\ ( \/ BadTag(tags, 10) /\ ~GoodTag(tags, 10)
           \/ BadTag(tags, 20) /\ ~GoodTag(tags, 20) ) => Target' = Target

\* C8 as claimed: when a POINT closes, a malformed code-30 value means the
\* point it emits has z = 0.0; a malformed code-10 or code-20 value with no
\* well-formed tag for that code means it emits nothing; the scan goes on.
C8_AsClaimed == [][ClosesAsClaimed]_vars

\* a step that closes a POINT as C8 amended words it, or does not close one
ClosesKeepingFields ==
    (pc = "point" /\ pc' = "top") =>
      /\ (BadTag(tags, 30) /\ ~GoodTag(tags, 30)) =>
           IF GoodTag(tags, 10) /\ GoodTag(tags, 20)
           THEN \E p \in {Target'[Len(Target')]} :
                   Target' = Append(Target, p) /\ p[3] = 0
           ELSE Target' = Target
      /\ ( \/ BadTag(tags, 10) /\ ~GoodTag(tags, 10)
           \/ BadTag(tags, 20) /\ ~GoodTag(tags, 20) ) => Target' = Target

\* C8 amended: the same, the code-30 case holding when the entity has no
\* well-formed code-30 tag; then a point with z = 0.0 is emitted exactly when
\* well-formed code-10 and code-20 tags were read.
C8_MalformedValueKeepsField == [][ClosesKeepingFields]_vars

\* C8 witness: a POINT with x = 1, y = 2 and a malformed z closed the file
\* and gave (1, 2, 0); the scan went on to its end.
C8_Witness ==
    /\ pc = "ret" /\ file # <<>>
    /\ file[Len(file)] = PtBadZ
    /\ BadTag(tags, 30) /\ ~GoodTag(tags, 30)
    /\ points # <<>> /\ points[Len(points)] = <<1, 2, 0>>

\* a parselet step that drops one line or reads one pair, or a step elsewhere
ReadsByOneOrTwo ==
    (pc \in Parselets /\ i < Len(lines)) =>
      /\ (LineAt(lines, i) # "0" /\ ~IsInt(LineAt(lines, i))) =>
           /\ i' = i + 1 /\ pc' = pc
           /\ UNCHANGED <<current_block, current_block_points, points, blocks,
                          inserts, point_data, ins, k, stdout>>
      /\ (LineAt(lines, i) # "0" /\ IsInt(LineAt(lines, i)) /\ i + 1 < Len(lines)) =>
           /\ i' = i + 2
           /\ tags' = Append(tags, <<LineAt(lines, i), LineAt(lines, i + 1)>>)

\* C9: in a parselet, a line in group-code position that is no integer (and
\* not the terminator) moves the cursor by exactly one line, stays in the
\* parselet and changes nothing else; an integer code with a value line
\* after it moves the cursor by exactly two lines, the second being its value.
C9_DropOneLine == [][ReadsByOneOrTwo]_vars

\* C9 witness: a parselet dropped a line and then read a (code, value) pair
\* from the two lines right after it.
C9_Witness ==
    /\ pc \in Parselets
    /\ \E n \in 1..(Len(tags) - 1) : Len(tags[n]) = 1 /\ Len(tags[n + 1]) = 2

\* C10: with the unique flag, main saves the first occurrence of each point
\* in first-seen order: no two saved points are equal, every returned point
\* is saved, and removing duplicates again changes nothing; without the
\* flag it saves the returned sequence as it is.
C10_Dedup ==
    (pc = "exit" /\ saved # None) =>
        IF remove_duplicates
        THEN /\ saved[1] = FirstOccurrences(points)
             /\ \A m, n \in 1..Len(saved[1]) : m # n => saved[1][m] # saved[1][n]
             /\ Elements(saved[1]) = Elements(points)
             /\ UniqueOrdered(saved[1]) = saved[1]
        ELSE saved[1] = points

\* C10 witness: with the unique flag, a result holding a point twice, with
\* another point in between, was saved as two points.
C10_Witness ==
    /\ pc = "exit" /\ remove_duplicates /\ saved # None
    /\ Len(points) = 3 /\ points[1] = points[3] /\ points[1] # points[2]
    /\ saved[1] = <<points[1], points[2]>>

\* a quarter turn counter-clockwise about Z, n times
RECURSIVE QuarterTurns(_, _)
QuarterTurns(v, n) ==
    IF n = 0 THEN v ELSE QuarterTurns(<<0 - v[2], v[1], v[3]>>, n - 1)
\* scale, then turn, then translate, each written as a map of triples
ScaleBy(v, r) == <<v[1] * r.scale_x, v[2] * r.scale_y, v[3] * r.scale_z>>
TranslateBy(v, r) == <<v[1] + r.insert_x, v[2] + r.insert_y, v[3] + r.insert_z>>

\* C11: the resolver's point for a block point P and an INSERT r is P scaled
\* component-wise, then turned counter-clockwise about Z by the rotation (a
\* multiple of 90 degrees), then translated by the origin; its z is
\* z * scale_z + insert_z whatever the rotation.
C11_ScaleRotateTranslate ==
    (pc = "ret" /\ "B1" \in DOMAIN blocks /\ Len(inserts) = 1
       /\ Len(blocks["B1"]) = 1 /\ inserts[1].block_name = "B1"
       /\ inserts[1].rotation % 90 = 0 /\ points # <<>>) =>
        LET P == blocks["B1"][1]
            r == inserts[1]
            out == points[Len(points)]
        IN  /\ out = TranslateBy(QuarterTurns(ScaleBy(P, r), (r.rotation % 360) \div 90), r)
            /\ out[3] = P[3] * r.scale_z + r.insert_z

\* C11 witness: point (1,0,0), scale (2,1,1), rotation 90, origin (5,5,0)
\* was resolved to (5,7,0).
C11_Witness ==
    /\ pc = "ret" /\ file = <<>>
    /\ blocks = ("B1" :> <<<<1, 0, 0>>>>)
    /\ inserts = <<[block_name |-> "B1", insert_x |-> 5, insert_y |-> 5,
                    insert_z |-> 0, scale_x |-> 2, scale_y |-> 1, scale_z |-> 1,
                    rotation |-> 90]>>
    /\ points = <<<<5, 7, 0>>>>

\* C12: with rotation 0 the resolver's point is (x*sx + ox, y*sy + oy,
\* z*sz + oz), and with scale (1,1,1) and origin (0,0,0) besides it is the
\* block's point itself.
C12_NoRotation ==
    (pc = "ret" /\ "B1" \in DOMAIN blocks /\ Len(inserts) = 1
       /\ Len(blocks["B1"]) = 1 /\ inserts[1].block_name = "B1"
       /\ inserts[1].rotation = 0 /\ points # <<>>) =>
        LET P == blocks["B1"][1]
            r == inserts[1]
            out == points[Len(points)]
        IN  /\ out = <<P[1] * r.scale_x + r.insert_x, P[2] * r.scale_y + r.insert_y,
                       P[3] * r.scale_z + r.insert_z>>
            /\ ( /\ r.scale_x = 1 /\ r.scale_y = 1 /\ r.scale_z = 1
                 /\ r.insert_x = 0 /\ r.insert_y = 0 /\ r.insert_z = 0 ) => out = P

\* C12 witness: point (1,-1,1) under rotation 0, scale (1,1,1) and origin
\* (0,0,0) was resolved to itself.
C12_Witness ==
    /\ pc = "ret" /\ file = <<>>
    /\ blocks = ("B1" :> <<<<1, 0 - 1, 1>>>>)
    /\ inserts = <<[block_name |-> "B1", insert_x |-> 0, insert_y |-> 0,
                    insert_z |-> 0, scale_x |-> 1, scale_y |-> 1, scale_z |-> 1,
                    rotation |-> 0]>>
    /\ points = <<<<1, 0 - 1, 1>>>>

\* a fragment that is a BLOCK header alone, with a code-2 name and no ENDBLK
IsHeader(frag) ==
    /\ Keyword(frag) = "BLOCK" /\ ~IsDefinition(frag)
    /\ \E n \in 3..Len(frag) : n % 2 = 1 /\ frag[n] = "2"
HeaderName(frag) == frag[(CHOOSE n \in 3..Len(frag) : n % 2 = 1 /\ frag[n] = "2") + 1]
\* fragment d of f opens a region that is still open where f ends: only
\* POINT and INSERT entities follow it
OpenAtEnd(f, d) ==
    /\ IsHeader(f[d])
    /\ \A q \in (d + 1)..Len(f) : Keyword(f[q]) \in {"POINT", "INSERT"}
\* the points of the POINT entities of f after fragment d
RECURSIVE PointsAfter(_, _)
PointsAfter(f, d) ==
    IF d >= Len(f) THEN <<>>
    ELSE (IF Keyword(f[d + 1]) = "POINT" THEN Parse(f[d + 1]).points ELSE <<>>)
         \o PointsAfter(f, d + 1)

\* C13: when the file ends inside a BLOCK region with a non-empty name that
\* holds at least one point, the registry holds those points under that
\* name from the moment the resolver starts, before it has appended anything; every INSERT
\* of that name, before or inside the region, resolves against them, and the
\* call returns what it returns for the file closed by an ENDBLK.
C13_FlushAtEnd ==
    (pc \in {"resolve", "ret"} /\ readable) =>
        \A d \in 1..Len(file) :
            ( /\ OpenAtEnd(file, d) /\ HeaderName(file[d]) # ""
              /\ PointsAfter(file, d) # <<>> ) =>
                LET name == HeaderName(file[d])
                    G == Parse(Flatten(file \o <<EndBlkEnt>>))
                IN  /\ name \in DOMAIN blocks
                    /\ blocks[name] = PointsAfter(file, d)
                    /\ \A n \in 1..Len(inserts) :
                         inserts[n].block_name = name =>
                           ResolvedPoints(<<inserts[n]>>, blocks)
                             = Transformed(PointsAfter(file, d), inserts[n])
                    /\ pc = "ret" => (points = G.points /\ blocks = G.blocks)

\* C13 witness: the file ends inside BLOCK B1 after one POINT; the INSERT of
\* B1 written before the BLOCK resolved against that point.
C13_Witness ==
    /\ pc = "ret"
    /\ file = <<InsA, BlkB1, PtB>>
    /\ blocks = ("B1" :> <<<<3, 1, 1>>>>)
    /\ points = <<<<13, 1, 1>>>>

\* the value of the last tag of T for code c that float() takes
LastGood(T, c) ==
    LET good(n) == Len(T[n]) = 2 /\ IntOf(T[n][1]) = c /\ IsFloat(T[n][2])
    IN  FloatOf(T[CHOOSE n \in 1..Len(T) :
                    good(n) /\ \A m \in (n + 1)..Len(T) : ~good(m)][2])

\* a step of the POINT parselet that closes the entity, or reads on, as C14
\* words it; or a step elsewhere
PointClosesOnTerminator ==
    pc = "point" =>
      LET atEnd == \/ i >= Len(lines)
                   \/ /\ LineAt(lines, i) # "0" /\ IsInt(LineAt(lines, i))
                      /\ i + 1 >= Len(lines)
          atZero == i < Len(lines) /\ LineAt(lines, i) = "0"
          pair == ~atEnd /\ ~atZero /\ IsInt(LineAt(lines, i))
      IN  /\ (pc' = "top") <=> (atEnd \/ atZero)
          /\ atZero => i' = i
          /\ (pc' = "top") =>
                IF GoodTag(tags, 10) /\ GoodTag(tags, 20)
                THEN /\ Target' = Append(Target,
                           <<LastGood(tags, 10), LastGood(tags, 20),
                             IF GoodTag(tags, 30) THEN LastGood(tags, 30) ELSE 0>>)
                     /\ Len(points') + Len(current_block_points')
                          = Len(points) + Len(current_block_points) + 1
                ELSE points' = points /\ current_block_points' = current_block_points
          /\ (pair /\ LineAt(lines, i + 1) = "0") => (pc' = "point" /\ i' = i + 2)
          /\ (pair /\ IntOf(LineAt(lines, i)) \notin {10, 20, 30}) =>
                point_data' = point_data

\* C14: the POINT parselet leaves the entity exactly at a "0" line in
\* group-code position (not consuming it) or at the end of the lines; it
\* then appends exactly one point (x, y, z or 0) if a code-10 and a code-20
\* value were parsed and nothing otherwise; a pair whose value is "0" does
\* not close it; a pair of another code changes no coordinate.
C14_PointCloses == [][PointClosesOnTerminator]_vars

\* C14 witness: a POINT with layer tag (8, "0") and x, y, z closed the file
\* and gave its one point; a POINT with x alone before it gave none.
C14_Witness ==
    /\ pc = "ret"
    /\ file = <<PtOnlyX, PtB>>
    /\ tags = <<<<"8", "0">>, <<"10", "3">>, <<"20", "1">>, <<"30", "1">>>>
    /\ points = <<<<3, 1, 1>>>>

\* T holds a tag for code c, and the value of the last one
HasTag(T, c) == \E n \in 1..Len(T) : Len(T[n]) = 2 /\ IntOf(T[n][1]) = c
LastTag(T, c) ==
    T[CHOOSE n \in 1..Len(T) :
        /\ Len(T[n]) = 2 /\ IntOf(T[n][1]) = c
        /\ \A m \in (n + 1)..Len(T) : ~(Len(T[m]) = 2 /\ IntOf(T[m][1]) = c)][2]
\* the block name the tags T give an INSERT
NameIn(T) == IF HasTag(T, 2) THEN LastTag(T, 2) ELSE ""
\* the field of an INSERT for code c, dflt when no well-formed tag set it
FieldIn(T, c, dflt) == IF GoodTag(T, c) THEN LastGood(T, c) ELSE dflt
\* the step closes an INSERT
InsertCloses == pc = "insert" /\ pc' = "top"
\* the closing step appends one reference, or none when no name was captured
AppendsOneIfNamed ==
    IF NameIn(tags) # ""
    THEN /\ Len(inserts') = Len(inserts) + 1
         /\ SubSeq(inserts', 1, Len(inserts)) = inserts
         /\ inserts'[Len(inserts')].block_name = NameIn(tags)
    ELSE inserts' = inserts

\* a step that closes an INSERT as C15 words it, or does not close one
InsertClosesAsClaimed ==
    InsertCloses =>
      /\ AppendsOneIfNamed
      /\ NameIn(tags) # "" =>
           LET r == inserts'[Len(inserts')]
               dflt(c) == ~HasTag(tags, c) \/ BadTag(tags, c)
           IN  /\ dflt(10) => r.insert_x = 0
               /\ dflt(20) => r.insert_y = 0
               /\ dflt(30) => r.insert_z = 0
               /\ dflt(41) => r.scale_x = 1
               /\ dflt(42) => r.scale_y = 1
               /\ dflt(43) => r.scale_z = 1
               /\ dflt(50) => r.rotation = 0

\* C15 as claimed: a closing INSERT appends exactly one reference if a
\* non-empty block name was captured and none otherwise, and in it every
\* field whose tag is absent or malformed has its default (origin 0, scale
\* 1.0, rotation 0.0).
C15_AsClaimed == [][InsertClosesAsClaimed]_vars

\* a step that closes an INSERT as C15 amended words it, or does not close one
InsertClosesKeepingFields ==
    InsertCloses =>
      /\ AppendsOneIfNamed
      /\ NameIn(tags) # "" =>
           inserts'[Len(inserts')] =
             [block_name |-> NameIn(tags),
              insert_x |-> FieldIn(tags, 10, 0), insert_y |-> FieldIn(tags, 20, 0),
              insert_z |-> FieldIn(tags, 30, 0), scale_x |-> FieldIn(tags, 41, 1),
              scale_y |-> FieldIn(tags, 42, 1), scale_z |-> FieldIn(tags, 43, 1),
              rotation |-> FieldIn(tags, 50, 0)]

\* C15 amended: the same, a field having its default exactly when the entity
\* has no well-formed tag for its code, and otherwise the value of the last
\* well-formed one: a malformed value leaves the field as it was.
C15_InsertKeepsFields == [][InsertClosesKeepingFields]_vars

\* C15 witness: an INSERT of B1 with x = 5 followed by a malformed x, a
\* malformed scale and a malformed rotation was recorded with x = 5, scale 1
\* and rotation 0; the INSERT without a name before it was not recorded.
C15_Witness ==
    /\ pc = "ret"
    /\ file = <<InsNoName, InsXBadX>>
    /\ inserts = <<[block_name |-> "B1", insert_x |-> 5, insert_y |-> 0,
                    insert_z |-> 0, scale_x |-> 1, scale_y |-> 1, scale_z |-> 1,
                    rotation |-> 0]>>

\* the entity keywords the scanner dispatches on
Keywords == {"POINT", "BLOCK", "ENDBLK", "INSERT"}

\* C16: an entity of a kind the scanner does not parse is inert, also when
\* one of its tag values is the string POINT, BLOCK, ENDBLK or INSERT: the
\* call records and returns what it does for the file without that entity.
C16_AsClaimed ==
    (pc = "ret" /\ readable) =>
        \A j \in 1..Len(file) :
            Keyword(file[j]) \notin Keywords =>
                LET G == Parse(Flatten(Remove(file, j)))
                IN  points = G.points /\ blocks = G.blocks /\ inserts = G.inserts

\* every region of f is one that must not be registered: a BLOCK without a
\* name, one with an empty name, or a named definition without a POINT
NothingToRegister(f) ==
    \A j \in 1..Len(f) :
        HasBlockKeyword(f[j]) => f[j] \in {BlkNoName, BlkEmptyName, B1DefEmpty}
\* the warnings among what was printed
Warnings(out) == {n \in 1..Len(out) : out[n][1] = "warning"}

\* C17: every entry of the registry has a non-empty name and a non-empty
\* point list, in every state; and in a file whose only BLOCK regions have no
\* name, an empty name, or a name and no completed POINT, nothing is ever
\* registered and every recorded INSERT ends as one warning and no point.
C17_RegistryInvariant ==
    /\ \A n \in DOMAIN blocks : n # "" /\ blocks[n] # <<>>
    /\ NothingToRegister(file) =>
         /\ blocks = <<>>
         /\ pc = "ret" =>
              /\ Cardinality(Warnings(stdout)) = Len(inserts)
              /\ \A n \in 1..Len(inserts) :
                   <<"warning", inserts[n].block_name>> \in Elements(stdout)
              /\ ResolvedPoints(inserts, blocks) = <<>>

\* C17 witness: B1 was defined without a POINT and then inserted; the
\* registry stayed empty and the INSERT was reported.
C17_Witness ==
    /\ pc = "ret"
    /\ file = <<B1DefEmpty, InsA>>
    /\ blocks = <<>>
    /\ Len(inserts) = 1
    /\ stdout = <<<<"warning", "B1">>>>
    /\ points = <<>>

\* the lines the running parselet has read since its keyword
RECURSIVE Consumed(_)
Consumed(T) == IF T = <<>> THEN 0 ELSE Len(Head(T)) + Consumed(Tail(T))

\* the cursor is within 0..len(lines), and in a parselet it is past the
\* keyword line at which this iteration of the outer loop started
CursorInRange ==
    /\ 0 <= i /\ i <= Len(lines)
    /\ pc \in Parselets =>
         /\ i - 1 - Consumed(tags) >= 0
         /\ LineAt(lines, i - 1 - Consumed(tags)) \in Keywords

\* a step of the scan moves the cursor forward: the outer loop's own step
\* by at least one line, a parselet's step by one or two lines or, when it
\* leaves the parselet at a terminator or at the end, by none
CursorAdvances ==
    /\ (pc = "top" /\ i < Len(lines)) => i' > i
    /\ pc \in Parselets => (i' >= i /\ (i' = i => pc' = "top"))

\* C18: the cursor stays within 0..len(lines); every iteration of the outer
\* loop ends with the cursor strictly past where it started, the rewind to a
\* "0" terminator included; and the scan ends on every input: the call
\* returns and main exits.
C18_ScanTerminates ==
    /\ []CursorInRange
    /\ [][CursorAdvances]_vars
    /\ <>(pc = "exit")

\* C18 witness: the BLOCK header loop met the "0" of the next entity, stepped
\* back to it, and the scan went on to the end of the lines.
C18_Witness ==
    /\ pc = "exit"
    /\ file = <<BlkNoName, PtA>>
    /\ i = Len(lines)
    /\ points = <<<<1, 2, 0>>>>

\* f without its fragments d..m-1
Without(f, d, m) == SubSeq(f, 1, d - 1) \o SubSeq(f, m, Len(f))
\* fragment d of f opens a named region that fragment m > d, the next one
\* with a BLOCK keyword, cuts off; only POINT entities lie in between
CutOff(f, d, m) ==
    /\ d < m /\ IsHeader(f[d]) /\ Keyword(f[m]) = "BLOCK"
    /\ \A q \in (d + 1)..(m - 1) : Keyword(f[q]) = "POINT"

\* the registry changes only at an ENDBLK keyword or where the scan ends, and
\* a BLOCK keyword empties the open region without touching the registry
CommitsOnlyAtEnd ==
    /\ blocks' # blocks =>
         pc = "top" /\ (i >= Len(lines) \/ LineAt(lines, i) = "ENDBLK")
    /\ (pc = "top" /\ i < Len(lines) /\ LineAt(lines, i) = "BLOCK") =>
         /\ blocks' = blocks /\ points' = points
         /\ current_block' = None /\ current_block_points' = <<>>

\* a named region cut off by the next BLOCK keyword, with only POINT
\* entities in it, leaves no trace: the call records and returns what it
\* does for the file without that region
OpenRegionDiscarded ==
    (pc = "ret" /\ readable) =>
        \A d \in 1..Len(file) : \A m \in 1..Len(file) :
            CutOff(file, d, m) =>
                LET G == Parse(Flatten(Without(file, d, m)))
                IN  points = G.points /\ blocks = G.blocks /\ inserts = G.inserts

\* C19: a BLOCK keyword met while a region is open discards that region's
\* name and points without committing them, so that the region leaves no
\* trace in what the call returns; the registry is written only at ENDBLK
\* and at the end of the lines.
C19_OpenBlockDiscarded == [][CommitsOnlyAtEnd]_vars /\ []OpenRegionDiscarded

\* C19 witness: BLOCK B1 held one point when an unnamed BLOCK started; B1 was
\* never registered, and the INSERT of B1 was reported.
C19_Witness ==
    /\ pc = "ret"
    /\ file = <<BlkB1, PtA, BlkNoName, InsA>>
    /\ blocks = <<>>
    /\ points = <<>>
    /\ stdout = <<<<"warning", "B1">>>>

\* the fragments of f that hold the INSERT keyword, in their order
RECURSIVE KeepInserts(_)
KeepInserts(f) ==
    IF f = <<>> THEN <<>>
    ELSE (IF HoldsInsert(Head(f))
          THEN <<Head(f)>> ELSE <<>>) \o KeepInserts(Tail(f))

\* the INSERTs recorded are those of the file stripped of everything else,
\* BLOCK and ENDBLK included: where an INSERT lies makes no difference
RecordedAsTopLevel ==
    (pc \in {"resolve", "ret"} /\ readable) =>
        inserts = Parse(Flatten(KeepInserts(file))).inserts

\* closing an INSERT leaves the open block and the registry alone; the
\* resolver takes the recorded INSERTs one by one, each once, and each adds
\* as many points as the registry holds for its name
StoredAndResolvedOnce ==
    /\ InsertCloses =>
         /\ current_block' = current_block
         /\ current_block_points' = current_block_points
         /\ blocks' = blocks /\ points' = points
    /\ (pc = "resolve" /\ k <= Len(inserts)) =>
         /\ k' = k + 1 /\ pc' = "resolve"
         /\ inserts' = inserts /\ blocks' = blocks
         /\ Len(points') = Len(points) + Len(Registered(blocks, inserts[k].block_name))
         /\ SubSeq(points', 1, Len(points)) = points
    /\ (pc = "resolve" /\ k > Len(inserts)) =>
         (pc' = "ret" /\ points' = points)

\* C20: an INSERT inside a BLOCK region is recorded in the one global list
\* as a top-level INSERT is, and not in the enclosing block; the resolver
\* visits every recorded INSERT exactly once and each adds exactly as many
\* points as its block holds: nothing is expanded again through the
\* enclosing block.
C20_NoNestedResolution == [][StoredAndResolvedOnce]_vars /\ []RecordedAsTopLevel

\* C20 witness: block B2 holds a POINT and an INSERT of B1; the file inserts
\* B2 once. Two INSERTs were recorded and each gave one point: the INSERT of
\* B2 gave B2's own point and not B1's.
C20_Witness ==
    /\ pc = "ret"
    /\ file = <<B1Def1, BlkB2, PtA, InsA, EndBlkEnt, InsB2>>
    /\ Len(inserts) = 2
    /\ blocks["B2"] = <<<<1, 2, 0>>>>
    /\ points = <<<<13, 1, 0>>, <<1, 12, 0>>>>

====
